---- MODULE Spec2Model ----
(***************************************************************************)
(* The conversation thread store of the email agent (thread_manager.py):   *)
(* the facade functions and the three storage providers (JSON file,        *)
(* SQLite, in-memory mock), with the clock the facade stamps records with  *)
(* and the file system / database faults the providers handle.             *)
(***************************************************************************)
EXTENDS Integers, Sequences, FiniteSets, TLC

(***************************************************************************)
(* Bounds of the model.                                                    *)
(***************************************************************************)
\* the clock runs over 0..MaxTime (ticks of half a second)
MaxTime == 2
\* a run makes at most MaxCalls facade calls (which bounds the mock
\* provider's operation_count too)
MaxCalls == 3
\* at most MaxFaults faults (I/O errors, crashes) are injected into the calls
MaxFaults == 1
\* the JSON file is replaced by invalid data at most MaxCorruptions times
MaxCorruptions == 1
\* the longest history a caller hands to save_threads is the cap plus MaxOver
MaxOver == 1

\* config.max_thread_history (threading.max_history), as configured for the
\* runs of the model
MAX_THREAD_HISTORY == 2

\* a run that starts from the configuration file makes at most MaxAppends
\* appends
MaxAppends == 4

\* the default of Config.max_thread_history
DefaultMaxHistory == 5

\* the integers config.yaml may give for threading.max_history
ConfiguredValues == -1..3

\* the longest history handed to format_thread_context
MaxContext == 3
MaxBatch == 2
MaxFetches == 3

Backends == {"json", "sqlite", "mock"}

\* thread keys the callers pass: the empty key, and two conversation ids
Keys == {"", "old_thread_1", "thread_123"}

\* what a caller passes to the facade besides the thread key:
\* (uid, sender, subject, body, is_bot_reply); uid 0 stands for None
Msgs ==
  { [uid |-> 101, sender |-> "customer", subject |-> "Q", body |-> "A",
     is_bot_reply |-> FALSE],
    [uid |-> 0, sender |-> "bot", subject |-> "Re: Q", body |-> "B",
     is_bot_reply |-> TRUE] }

\* days_old arguments of cleanup_old_threads
DaysChoices == {0, 1}

(***************************************************************************)
(* Time and ISO-8601 strings.  A clock reading t is t \div 2 seconds and   *)
(* t % 2 half seconds; a day of the model is one tick of the clock.        *)
(* datetime.isoformat() prints the fixed-width date-time, and the fraction *)
(* only when it is not zero; strings are compared character by character,  *)
(* a proper prefix being smaller.                                          *)
(***************************************************************************)
isoformat(t) == IF t % 2 = 0 THEN << t \div 2 >> ELSE << t \div 2, 5 >>

RECURSIVE StrLt(_, _)
StrLt(a, b) ==
  IF b = <<>> THEN FALSE
  ELSE IF a = <<>> THEN TRUE
  ELSE IF a[1] # b[1] THEN a[1] < b[1]
  ELSE StrLt(Tail(a), Tail(b))

\* timedelta(days = d): a day is one tick of the model's clock
timedelta(d) == d

\* int(time.time()): the whole seconds of the clock
EpochSeconds(t) == t \div 2

(***************************************************************************)
(* Python dicts and lists.                                                 *)
(***************************************************************************)
EmptyMap == [k \in {} |-> <<>>]

Get(m, k) == IF k \in DOMAIN m THEN m[k] ELSE <<>>

Put(m, k, v) == [x \in (DOMAIN m) \cup {k} |-> IF x = k THEN v ELSE m[x]]

Drop(m, S) == [x \in (DOMAIN m) \ S |-> m[x]]

\* s[-n:]  (for n = 0 Python's s[-0:] is the whole list, for n < 0 it is
\* s[|n|:], the list without its first |n| elements)
SliceLast(s, n) ==
  IF n = 0 \/ Len(s) <= n THEN s
  ELSE IF n < 0 THEN (IF -n >= Len(s) THEN <<>> ELSE SubSeq(s, 1 - n, Len(s)))
  ELSE SubSeq(s, Len(s) - n + 1, Len(s))

\* the first n elements (SQL LIMIT n)
Limit(s, n) == IF Len(s) <= n THEN s ELSE SubSeq(s, 1, n)

RECURSIVE SumLen(_, _)
SumLen(m, S) ==
  IF S = {} THEN 0
  ELSE LET k == CHOOSE x \in S : TRUE IN Len(m[k]) + SumLen(m, S \ {k})

CountBots(h) == Cardinality({i \in 1..Len(h) : h[i].is_bot_reply})

RECURSIVE SumBots(_, _)
SumBots(m, S) ==
  IF S = {} THEN 0
  ELSE LET k == CHOOSE x \in S : TRUE
       IN CountBots(m[k]) + SumBots(m, S \ {k})

\* max(history, key = timestamp).timestamp, for a non-empty history
NewestTimestamp(h) ==
  LET ts == {h[i].timestamp : i \in 1..Len(h)}
  IN CHOOSE t \in ts : \A u \in ts : ~StrLt(t, u)

(***************************************************************************)
(* The facade's record.                                                    *)
(***************************************************************************)
EmailData(m, t) ==
  [uid |-> m.uid, sender |-> m.sender, subject |-> m.subject, body |-> m.body,
   timestamp |-> isoformat(t), is_bot_reply |-> m.is_bot_reply]

(***************************************************************************)
(* The JSON document: json.dump writes an opening brace, one entry per     *)
(* thread key and a closing brace; json.load accepts exactly such texts.   *)
(* A file is absent, a text (a sequence of tokens) or bytes that are not   *)
(* UTF-8.                                                                  *)
(***************************************************************************)
Tok(kind, key, hist) == [tok |-> kind, key |-> key, hist |-> hist]
OpenTok == Tok("open", "", <<>>)
CloseTok == Tok("close", "", <<>>)

RECURSIVE Entries(_, _)
Entries(m, S) ==
  IF S = {} THEN <<>>
  ELSE LET k == CHOOSE x \in S : TRUE
       IN << Tok("entry", k, m[k]) >> \o Entries(m, S \ {k})

json_dump(m) == << OpenTok >> \o Entries(m, DOMAIN m) \o << CloseTok >>

WellFormed(toks) ==
  /\ Len(toks) >= 2
  /\ toks[1] = OpenTok
  /\ toks[Len(toks)] = CloseTok
  /\ \A i \in 2..(Len(toks) - 1) : toks[i].tok = "entry"

\* json.load of a well-formed text: a repeated key keeps its last entry
json_load(toks) ==
  LET idx == 2..(Len(toks) - 1)
      last(k) == CHOOSE i \in idx :
                   /\ toks[i].key = k
                   /\ \A j \in idx : toks[j].key = k => j <= i
  IN [k \in {toks[i].key : i \in idx} |-> toks[last(k)].hist]

NoFile == [kind |-> "none", toks |-> <<>>]
TextFile(toks) == [kind |-> "text", toks |-> toks]
BytesFile == [kind |-> "bytes", toks |-> <<>>]

\* the mapping a reader finds under a path
Persisted(f) ==
  IF f.kind = "text" /\ WellFormed(f.toks) THEN json_load(f.toks) ELSE EmptyMap

(***************************************************************************)
(* Statistics: the six counters the providers have in common.              *)
(***************************************************************************)
\* statistics that count a thread as at the limit only when it is over it
StatsOf_OverLimit(m) ==
  [total_threads |-> Cardinality(DOMAIN m),
   total_emails |-> SumLen(m, DOMAIN m),
   threads_with_history |-> Cardinality({k \in DOMAIN m : Len(m[k]) > 1}),
   threads_at_limit |->
     Cardinality({k \in DOMAIN m : Len(m[k]) > MAX_THREAD_HISTORY}),
   bot_replies |-> SumBots(m, DOMAIN m),
   user_emails |-> SumLen(m, DOMAIN m) - SumBots(m, DOMAIN m)]

StatsOf(m) ==
  [total_threads |-> Cardinality(DOMAIN m),
   total_emails |-> SumLen(m, DOMAIN m),
   threads_with_history |-> Cardinality({k \in DOMAIN m : Len(m[k]) > 1}),
   threads_at_limit |->
     Cardinality({k \in DOMAIN m : Len(m[k]) >= MAX_THREAD_HISTORY}),
   bot_replies |-> SumBots(m, DOMAIN m),
   user_emails |-> SumLen(m, DOMAIN m) - SumBots(m, DOMAIN m)]

\* the record a provider returns when computing the statistics failed
StatsError ==
  [total_threads |-> -1, total_emails |-> -1, threads_with_history |-> -1,
   threads_at_limit |-> -1, bot_replies |-> -1, user_emails |-> -1]

(***************************************************************************)
(* What an operation hands back: its name, whether an exception left it    *)
(* instead of a value, and the value, under the field of its kind: ok      *)
(* (add, save), count (cleanup), history (get), threads (load), stats.     *)
(***************************************************************************)
NoValue(op, raised) ==
  [op |-> op, raised |-> raised, ok |-> FALSE, count |-> 0, history |-> <<>>,
   threads |-> EmptyMap, stats |-> StatsError]

Returned(op, val) ==
  CASE op \in {"add", "save"} -> [NoValue(op, FALSE) EXCEPT !.ok = val]
    [] op = "cleanup" -> [NoValue(op, FALSE) EXCEPT !.count = val]
    [] op = "get" -> [NoValue(op, FALSE) EXCEPT !.history = val]
    [] op = "load" -> [NoValue(op, FALSE) EXCEPT !.threads = val]
    [] op = "stats" -> [NoValue(op, FALSE) EXCEPT !.stats = val]

Raised(op) == NoValue(op, TRUE)
Outcome(op, val, raised) == IF raised THEN Raised(op) ELSE Returned(op, val)
Running == NoValue("running", FALSE)
Crashed == NoValue("crashed", FALSE)
NoCall == NoValue("none", FALSE)

(***************************************************************************)
(* JSONStorageProvider.  The file system faults of a call: "read" (the     *)
(* size query, open or read of the canonical file raises OSError) and      *)
(* "rename" (moving a corrupt file aside raises).                          *)
(***************************************************************************)
LoadFaults == {"none", "read", "rename"}

\* what reading and decoding the existing file raises
JSON_load_error(f, fault) ==
  IF fault = "read" THEN "OSError"
  ELSE IF f.kind = "bytes" THEN "UnicodeDecodeError"
  ELSE IF ~WellFormed(f.toks) THEN "JSONDecodeError"
  ELSE "none"

\* a load_threads that handles json.JSONDecodeError only
JSON_load_handler_Narrow(exc) ==
  IF exc = "JSONDecodeError" THEN "backup" ELSE "propagate"

\* the except clause of load_threads that takes the exception
JSON_load_handler(exc) ==
  IF exc = "JSONDecodeError" THEN "backup" ELSE "generic"

JSON_load_threads(f, bk, t, fault) ==
  LET same(v, r) == [val |-> v, file |-> f, backups |-> bk, raised |-> r]
      exc == JSON_load_error(f, fault)
      h == JSON_load_handler(exc)
  IN IF f.kind = "none" THEN same(EmptyMap, FALSE)
     ELSE IF exc = "none" THEN same(json_load(f.toks), FALSE)
     ELSE IF h = "backup"
       THEN IF fault = "rename" THEN same(EmptyMap, FALSE)
            ELSE [val |-> EmptyMap, file |-> NoFile,
                  backups |-> Put(bk, EpochSeconds(t), f), raised |-> FALSE]
     ELSE IF h = "generic" THEN same(EmptyMap, FALSE)
     ELSE same(EmptyMap, TRUE)

\* the continuation of a call that is inside save_threads
NoCont == [op |-> "none", n |-> 0, base |-> NoFile, key |-> "", days |-> 0]

\* a call that has returned
JsonDone(f, bk, r) ==
  [file |-> f, backups |-> bk, pc |-> "idle", pending |-> EmptyMap,
   cont |-> NoCont, ret |-> r]

\* a call that enters save_threads(m)
JsonSave(f, bk, m, op, n, k, d) ==
  [file |-> f, backups |-> bk, pc |-> "open", pending |-> m,
   cont |-> [op |-> op, n |-> n, base |-> f, key |-> k, days |-> d],
   ret |-> Running]

\* a get_thread_history that stores an empty history for a key it does not
\* find (threads.setdefault and save)
JSON_get_thread_history_Creating(f, bk, t, k, fault) ==
  IF k = "" THEN JsonDone(f, bk, Returned("get", <<>>))
  ELSE LET L == JSON_load_threads(f, bk, t, fault)
       IN JsonDone(IF k \in DOMAIN L.val THEN L.file
                   ELSE TextFile(json_dump(Put(L.val, k, <<>>))),
                   L.backups, Outcome("get", Get(L.val, k), L.raised))

JSON_get_thread_history(f, bk, t, k, fault) ==
  IF k = "" THEN JsonDone(f, bk, Returned("get", <<>>))
  ELSE LET L == JSON_load_threads(f, bk, t, fault)
       IN JsonDone(L.file, L.backups, Outcome("get", Get(L.val, k), L.raised))

\* append, then keep the last MAX_THREAD_HISTORY
AppendTrim(threads, k, rec) ==
  LET h == Append(Get(threads, k), rec)
  IN Put(threads, k,
         IF Len(h) > MAX_THREAD_HISTORY THEN SliceLast(h, MAX_THREAD_HISTORY)
         ELSE h)

JSON_add_email_to_thread(f, bk, t, k, rec, fault) ==
  IF k = "" THEN JsonDone(f, bk, Returned("add", FALSE))
  ELSE LET L == JSON_load_threads(f, bk, t, fault)
       IN IF L.raised THEN JsonDone(L.file, L.backups, Returned("add", FALSE))
          ELSE JsonSave(L.file, L.backups, AppendTrim(L.val, k, rec), "add", 0, k,
                           0)

\* a cleanup that marks a thread as soon as one of its records is older than
\* the cutoff
StaleThreads_AnyOld(threads, cutoff_iso) ==
  {k \in DOMAIN threads :
     \/ threads[k] = <<>>
     \/ \E i \in 1..Len(threads[k]) : StrLt(threads[k][i].timestamp, cutoff_iso)}

\* the threads cleanup marks: empty ones, and those whose newest record is
\* older than the cutoff
StaleThreads(threads, cutoff_iso) ==
  {k \in DOMAIN threads :
     \/ threads[k] = <<>>
     \/ StrLt(NewestTimestamp(threads[k]), cutoff_iso)}

JSON_cleanup_old_threads(f, bk, t, d, fault) ==
  LET L == JSON_load_threads(f, bk, t, fault)
      stale == StaleThreads(L.val, isoformat(t - timedelta(d)))
      removed_count == Cardinality(stale)
  IN IF L.raised THEN JsonDone(L.file, L.backups, Returned("cleanup", 0))
     ELSE IF L.val = EmptyMap
       THEN JsonDone(L.file, L.backups, Returned("cleanup", 0))
     ELSE IF removed_count > 0
       THEN JsonSave(L.file, L.backups, Drop(L.val, stale), "cleanup",
                     removed_count, "", d)
     ELSE JsonDone(L.file, L.backups, Returned("cleanup", removed_count))

JSON_get_storage_stats(f, bk, t, fault) ==
  LET L == JSON_load_threads(f, bk, t, fault)
  IN JsonDone(L.file, L.backups,
              IF L.raised THEN Returned("stats", StatsError)
              ELSE Returned("stats", StatsOf(L.val)))

JSON_save_threads(f, bk, m) == JsonSave(f, bk, m, "save", 0, "", 0)

JSON_load_call(f, bk, t, fault) ==
  LET L == JSON_load_threads(f, bk, t, fault)
  IN JsonDone(L.file, L.backups, Outcome("load", L.val, L.raised))

\* a save_threads that opens the canonical file itself for writing
JSON_open_temp_InPlace(f, tf) == [file |-> TextFile(<<>>), tmp |-> tf]

\* save_threads, step by step: open(temp_file, 'w') creates or truncates the
\* temporary file
JSON_open_temp(f, tf) == [file |-> f, tmp |-> TextFile(<<>>)]

\* json.dump writes the next piece of the document into the temporary file
JSON_write_chunk(f, tf, m) ==
  [file |-> f,
   tmp |-> TextFile(Append(tf.toks, json_dump(m)[Len(tf.toks) + 1]))]

\* os.replace(temp_file, file_path)
os_replace(f, tf) == [file |-> tf, tmp |-> NoFile]

\* an except clause of save_threads that leaves the temporary file alone
JSON_save_cleanup_Leave(tf, remove_fails) == tf

\* the except clause of save_threads: remove the temporary file if it exists
JSON_save_cleanup(tf, remove_fails) ==
  IF tf.kind # "none" /\ ~remove_fails THEN NoFile ELSE tf

\* what the caller of save_threads returns for save_threads' result
AfterSave(c, ok) ==
  IF c.op = "cleanup" THEN Returned("cleanup", IF ok THEN c.n ELSE 0)
  ELSE Returned(c.op, ok)

(***************************************************************************)
(* SQLiteStorageProvider.  The table is the sequence of its rows in row id *)
(* order (AUTOINCREMENT ids only ever grow, so the position of a row is    *)
(* the rank of its id).  ORDER BY timestamp leaves the order of rows with  *)
(* equal timestamps to the engine: every order that is sorted by timestamp *)
(* is a possible result.  The engine is deterministic, though: as long as  *)
(* the table is what it was, the same query gives the same rows in the     *)
(* same order (plan keeps the order of the history query, per thread).  A  *)
(* database fault ("db": connect, a statement or the commit raises) rolls  *)
(* the transaction back; for add_email_to_thread the fault is named by the *)
(* statement that raises: "connect", "insert", "count", "delete" (the      *)
(* trimming DELETE), "commit", and for cleanup_old_threads likewise:       *)
(* "connect", "select", "delete", "commit".                                *)
(***************************************************************************)
DbFaults == {"none", "db"}

\* a connection in autocommit mode: what the statements did so far stays
SQLite_rollback_Autocommit(db, work) == work

\* an exception leaves the block "with sqlite3.connect(...) as conn": the
\* connection rolls back what the statements did since the last commit (work)
\* and the table is the committed one (db)
SQLite_rollback(db, work) == db

Row(k, e) == [thread_id |-> k, email |-> e]

ThreadIds(db) == {db[i].thread_id : i \in 1..Len(db)}

ThreadRows(db, k) == {i \in 1..Len(db) : db[i].thread_id = k}

\* the rows of thread k as sequences of positions, sorted by timestamp
OrderByTimestamp(db, k) ==
  LET P == ThreadRows(db, k)
      n == Cardinality(P)
  IN {s \in [1..n -> P] :
        /\ \A i, j \in 1..n : i # j => s[i] # s[j]
        /\ \A i, j \in 1..n :
             i < j => ~StrLt(db[s[j]].email.timestamp, db[s[i]].email.timestamp)}

\* the rows of thread k in row id order (the order they were inserted in)
RowsInOrder(db, k) ==
  LET P == ThreadRows(db, k)
      nth(j) == CHOOSE i \in P : Cardinality({x \in P : x < i}) = j - 1
  IN [j \in 1..Cardinality(P) |-> db[nth(j)].email]

\* DELETE of the rows at the positions V
DeleteRows(db, V) ==
  LET keep == (1..Len(db)) \ V
      nth(j) == CHOOSE i \in keep : Cardinality({x \in keep : x < i}) = j - 1
  IN [j \in 1..Cardinality(keep) |-> db[nth(j)]]

\* the orders the engine can produce for the history query of thread k: the
\* one it produced before over this table, or any that is sorted by timestamp
SQLite_history_orders(db, k, plan) ==
  IF k \in DOMAIN plan THEN {plan[k]} ELSE OrderByTimestamp(db, k)

\* the orders produced so far, as they stand after a statement: forgotten
\* when the table changed
SQLite_plan_after(db, db1, plan) == IF db1 = db THEN plan ELSE EmptyMap

\* SELECT ... WHERE thread_id = ? ORDER BY timestamp LIMIT ?, for the order
\* the engine produced
SQLite_get_thread_history(db, k, fault, order) ==
  IF k = "" THEN Returned("get", <<>>)
  ELSE IF fault # "none" THEN Returned("get", <<>>)
  ELSE Returned("get",
         LET s == Limit(order, MAX_THREAD_HISTORY)
         IN [i \in 1..Len(s) |-> db[s[i]].email])

\* the sets of rows the trimming DELETE may take: the first n of an order
SQLite_eviction_sets(db, k, n) ==
  {{s[i] : i \in 1..n} : s \in OrderByTimestamp(db, k)}

\* the victims an append has to choose among (none below the cap)
SQLite_eviction_choices(db, k, rec) ==
  LET db1 == Append(db, Row(k, rec))
      count == Cardinality(ThreadRows(db1, k))
  IN IF count > MAX_THREAD_HISTORY
       THEN SQLite_eviction_sets(db1, k, count - MAX_THREAD_HISTORY)
       ELSE {{}}

\* the statements of add_email_to_thread that can raise, given the rows the
\* trimming DELETE takes (it is executed only above the cap)
SQLite_add_faults(k, victims) ==
  IF k = "" THEN {"none"}
  ELSE {"none", "connect", "insert", "count", "commit"} \cup
       (IF victims # {} THEN {"delete"} ELSE {})

SQLite_add_email_to_thread(db, k, rec, fault, victims) ==
  LET inserted == Append(db, Row(k, rec))
      trimmed == DeleteRows(inserted, victims)
      work == IF fault \in {"connect", "insert"} THEN db
              ELSE IF fault \in {"count", "delete"} THEN inserted
              ELSE trimmed
  IN IF k = "" THEN [db |-> db, ret |-> Returned("add", FALSE)]
     ELSE IF fault # "none"
       THEN [db |-> SQLite_rollback(db, work), ret |-> Returned("add", FALSE)]
     ELSE [db |-> trimmed, ret |-> Returned("add", TRUE)]

\* SELECT ... ORDER BY thread_id, timestamp: one order per thread
SQLite_load_orders(db) ==
  {f \in [ThreadIds(db) -> UNION {OrderByTimestamp(db, k) : k \in ThreadIds(db)}] :
     \A k \in ThreadIds(db) : f[k] \in OrderByTimestamp(db, k)}

SQLite_load_threads(db, fault, orders) ==
  IF fault # "none" THEN Returned("load", EmptyMap)
  ELSE Returned("load",
         [k \in ThreadIds(db) |->
            [i \in 1..Len(orders[k]) |-> db[orders[k][i]].email]])

RECURSIVE InsertAll(_, _)
InsertAll(m, S) ==
  IF S = {} THEN <<>>
  ELSE LET k == CHOOSE x \in S : TRUE
       IN [i \in 1..Len(m[k]) |-> Row(k, m[k][i])] \o InsertAll(m, S \ {k})

\* DELETE FROM threads, then one INSERT per record
SQLite_save_threads(db, m, fault) ==
  IF fault # "none" THEN [db |-> db, ret |-> Returned("save", FALSE)]
  ELSE [db |-> InsertAll(m, DOMAIN m), ret |-> Returned("save", TRUE)]

\* GROUP BY thread_id HAVING MAX(timestamp) < cutoff
SQLite_stale_threads(db, cutoff_iso) ==
  {k \in ThreadIds(db) : StrLt(NewestTimestamp(RowsInOrder(db, k)), cutoff_iso)}

\* the statements of cleanup_old_threads that can raise: the DELETE and the
\* commit are executed only when there are threads to remove
SQLite_cleanup_faults(db, t, d) ==
  {"none", "connect", "select"} \cup
  (IF SQLite_stale_threads(db, isoformat(t - timedelta(d))) # {}
     THEN {"delete", "commit"} ELSE {})

SQLite_cleanup_old_threads(db, t, d, fault) ==
  LET threads_to_remove == SQLite_stale_threads(db, isoformat(t - timedelta(d)))
      deleted == DeleteRows(db, {i \in 1..Len(db) :
                                   db[i].thread_id \in threads_to_remove})
      work == IF fault = "commit" THEN deleted ELSE db
  IN IF fault # "none"
       THEN [db |-> SQLite_rollback(db, work), ret |-> Returned("cleanup", 0)]
     ELSE IF threads_to_remove # {}
       THEN [db |-> deleted,
             ret |-> Returned("cleanup", Cardinality(threads_to_remove))]
     ELSE [db |-> db, ret |-> Returned("cleanup", 0)]

SQLite_get_storage_stats(db, fault) ==
  LET total_threads == Cardinality(ThreadIds(db))
      total_emails == Len(db)
      bot_replies == Cardinality({i \in 1..Len(db) : db[i].email.is_bot_reply})
  IN IF fault # "none" THEN Returned("stats", StatsError)
     ELSE Returned("stats",
       [total_threads |-> total_threads,
        total_emails |-> total_emails,
        threads_with_history |->
          Cardinality({k \in ThreadIds(db) : Cardinality(ThreadRows(db, k)) > 1}),
        threads_at_limit |->
          Cardinality({k \in ThreadIds(db) :
                         Cardinality(ThreadRows(db, k)) >= MAX_THREAD_HISTORY}),
        bot_replies |-> bot_replies,
        user_emails |-> total_emails - bot_replies])

(***************************************************************************)
(* MockStorageProvider: the mapping in memory and the operation counter    *)
(* (every operation but get_storage_stats counts itself).  The copies the  *)
(* provider makes are shallow: dict.copy() and list.copy() make a new      *)
(* outer object whose elements are the objects of the original.            *)
(***************************************************************************)
\* the operations that increment operation_count
Mock_counted == {"load", "save", "get", "add", "cleanup"}

\* of the objects a caller holds after an operation (the mapping, a thread's
\* list, a record), those that are the provider's own objects
Mock_shared(op) ==
  CASE op = "load" -> {"list", "record"}
    [] op = "save" -> {"list", "record"}
    [] op = "get" -> {"record"}
    [] OTHER -> {}

\* the objects a caller holds after an operation: what load_threads and
\* get_thread_history returned, what it passed to save_threads
Mock_held(op) ==
  CASE op \in {"load", "save"} -> {"mapping", "list", "record"}
    [] op = "get" -> {"list", "record"}
    [] OTHER -> {}

\* the provider's mapping after the caller changed an object it holds:
\* history.clear() on a list, history[0]['body'] = ... on a record
Mock_mutated(threads, k, what) ==
  IF what = "list" THEN Put(threads, k, <<>>)
  ELSE IF what = "record" THEN [threads EXCEPT ![k][1].body = "edited"]
  ELSE threads

Mock_load_threads(threads) == Returned("load", threads)

Mock_save_threads(threads, m) == [threads |-> m, ret |-> Returned("save", TRUE)]

Mock_get_thread_history(threads, k) == Returned("get", Get(threads, k))

Mock_add_email_to_thread(threads, k, rec) ==
  LET h == Append(Get(threads, k), rec)
  IN [threads |-> Put(threads, k,
                      IF Len(h) > MAX_THREAD_HISTORY
                        THEN SliceLast(h, MAX_THREAD_HISTORY) ELSE h),
      ret |-> Returned("add", TRUE)]

\* 'old' in tid.lower(), over the keys of the model
HasOld(k) == k \in {"old_thread_1"}

Mock_cleanup_old_threads(threads, d) ==
  LET old_threads == {k \in DOMAIN threads : HasOld(k)}
  IN [threads |-> Drop(threads, old_threads),
      ret |-> Returned("cleanup", Cardinality(old_threads))]

Mock_get_storage_stats(threads) ==
  Returned("stats",
    [total_threads |-> Cardinality(DOMAIN threads),
     total_emails |-> SumLen(threads, DOMAIN threads),
     threads_with_history |->
       Cardinality({k \in DOMAIN threads : Len(threads[k]) > 1}),
     threads_at_limit |->
       Cardinality({k \in DOMAIN threads :
                      Len(threads[k]) >= MAX_THREAD_HISTORY}),
     bot_replies |-> SumBots(threads, DOMAIN threads),
     user_emails |->
       SumLen(threads, DOMAIN threads) - SumBots(threads, DOMAIN threads)])

(***************************************************************************)
(* The state.                                                              *)
(***************************************************************************)
VARIABLES
  active,    \* the providers the calls go to: the configured one, or all
             \* three side by side
  now,       \* the wall clock datetime.now() reads
  file,      \* the JSON file under its canonical path
  tmp,       \* the sibling file <path>.tmp
  backups,   \* the files <path>.backup_<seconds>, by their seconds
  pc,        \* where the JSON provider is inside save_threads
  pending,   \* the mapping that save_threads writes (wrote)
  cont,      \* the caller of that save_threads, and the file it started from
  db,        \* the rows of the SQLite table
  plan,      \* per thread, the row order the engine produced for the history
             \* query over the table as it is
  mock,      \* MockStorageProvider.threads
  opcount,   \* MockStorageProvider.operation_count
  calls,     \* the number of facade calls made so far
  ret,       \* per provider, what the last call returned
  faults,    \* the number of faults injected so far
  corruptions, \* the number of times the JSON file was replaced by invalid data
  faulted,   \* the steps of the last call that a fault was injected at
  appended,  \* per provider and thread, the last MAX_THREAD_HISTORY records
             \* that successful appends added
  pure,      \* per provider, whether all it has seen are successful appends
             \* and reads
  program,   \* the script the process runs: main.py or config_loader.py
  yaml,      \* the entry threading.max_history of config.yaml
  cap,       \* MAX_THREAD_HISTORY of thread_manager, once the module is imported
  validation, \* how Config.validate_config ended, if it was called
  context,   \* the last format_thread_context call: its argument and, once
             \* it returned, its result
  sending,   \* the last send_replies_for_emails call: its arguments, what
             \* the SMTP server does to each send and, once it returned, the
             \* emails it handed to send_reply and its result
  step,      \* where main() is: its step, or "done" once it returned
  idx,       \* the position of the loop of that step in the batch
  emails,    \* main: the batch step 1 fetched
  enhanced_results, \* main: what step 2 kept of each email
  contexts,  \* per email of the batch, the thread histories that
             \* generate_enhanced_reply read for it
  results,   \* main: what send_replies_for_emails returned
  original_saved, \* main, step 5: what the append of the inbound email returned
  storage_successes, \* main, step 5
  storage_failures,  \* main, step 5
  stored,    \* per email of the batch, the records step 5 appended for it
  is_connected,   \* MockMailProvider.is_connected
  processed_uids, \* MockMailProvider.processed_uids
  call_count,     \* MockMailProvider.call_count
  fetched    \* what the last fetch of the mock mail provider returned

vars == << active, now, file, tmp, backups, pc, pending, cont, db, plan, mock,
           opcount, calls, ret, faults, corruptions, faulted, appended, pure,
           program, yaml, cap, validation, context, sending,
           step, idx, emails, enhanced_results, contexts, results,
           original_saved, storage_successes, storage_failures, stored,
           is_connected, processed_uids, call_count, fetched >>

\* the state of main()
pipeline == << step, idx, emails, enhanced_results, contexts, results,
               original_saved, storage_successes, storage_failures, stored >>

\* the fields of the mock mail provider, and what it returned last
mailbox == << is_connected, processed_uids, call_count, fetched >>

\* the configuration and what the process made of it, the context built for
\* the reply, and the mail side of the process
cfg == << program, yaml, cap, validation, context, sending, pipeline, mailbox >>

store == << file, tmp, backups, pc, pending, cont, db, plan, mock, opcount >>

\* what the providers keep: the files, the table, the mock's fields
durable == << file, tmp, backups, db, mock, opcount >>

\* faults are injected when one provider runs alone
FaultsOn == Cardinality(active) = 1 /\ faults < MaxFaults

JsonFaults ==
  IF FaultsOn /\ "json" \in active /\ file.kind # "none"
    THEN {"none", "read"} \cup
         (IF file.kind = "text" /\ ~WellFormed(file.toks) THEN {"rename"} ELSE {})
    ELSE {"none"}

SqlFaults == IF FaultsOn /\ "sqlite" \in active THEN DbFaults ELSE {"none"}

InitStore ==
  /\ now = 0
  /\ file = NoFile
  /\ tmp = NoFile
  /\ backups = EmptyMap
  /\ pc = "idle"
  /\ pending = EmptyMap
  /\ cont = NoCont
  /\ db = <<>>
  /\ plan = EmptyMap
  /\ mock = EmptyMap
  /\ opcount = 0
  /\ calls = 0
  /\ ret = [b \in Backends |-> NoCall]
  /\ faults = 0
  /\ corruptions = 0
  /\ faulted = {}
  /\ appended = [b \in Backends |-> EmptyMap]
  /\ pure = [b \in Backends |-> TRUE]

\* an entry of config.yaml: absent, or an integer
Unset == [set |-> FALSE, value |-> 0]
Value(n) == [set |-> TRUE, value |-> n]

\* no format_thread_context call so far
NoContext == [history |-> <<>>, text |-> <<>>, done |-> FALSE]

\* the process is main.py with threading.max_history = MAX_THREAD_HISTORY,
\* and thread_manager is imported
Configured ==
  /\ program = "main"
  /\ yaml = Value(MAX_THREAD_HISTORY)
  /\ cap = Value(MAX_THREAD_HISTORY)
  /\ validation = "none"
  /\ context = NoContext

\* no send_replies_for_emails call so far
NoSending ==
  [emails |-> <<>>, replies |-> <<>>, sends |-> <<>>, attempted |-> {},
   results |-> <<>>, done |-> FALSE]

\* main() has not started
MainIdle ==
  /\ step = "idle"
  /\ idx = 0
  /\ emails = <<>>
  /\ enhanced_results = <<>>
  /\ contexts = <<>>
  /\ results = <<>>
  /\ original_saved = FALSE
  /\ storage_successes = 0
  /\ storage_failures = 0
  /\ stored = <<>>

\* MockMailProvider.__init__
MockMailProvider_init ==
  /\ is_connected = FALSE
  /\ processed_uids = {}
  /\ call_count = 0
  /\ fetched = <<>>

\* the thread store alone: no mail is read or sent
MailIdle == sending = NoSending /\ MainIdle /\ MockMailProvider_init

\* get_storage_provider(): the provider the configuration names
Init ==
  active \in {{"json"}, {"sqlite"}, {"mock"}} /\ InitStore /\ Configured /\ MailIdle

\* the three providers driven side by side with the same calls
InitParity == active = Backends /\ InitStore /\ Configured /\ MailIdle

\* the bookkeeping of the appended records
NoteAppend(a, k, rec) ==
  Put(a, k, SliceLast(Append(Get(a, k), rec), MAX_THREAD_HISTORY))

\* kind: "read", "write" (save_threads, cleanup) or "add"
Noted(kind, k, rec, r) ==
  [b \in Backends |->
     IF b \notin active \/ kind = "read" \/ r[b].op = "running"
       THEN [appended |-> appended[b], pure |-> pure[b]]
     ELSE IF kind = "add" /\ pure[b] /\ r[b].ok
       THEN [appended |-> NoteAppend(appended[b], k, rec), pure |-> TRUE]
     ELSE [appended |-> EmptyMap, pure |-> FALSE]]

\* one facade call: J, S and M are what the three providers make of it
Call(kind, k, rec, J, S, M, jf, sf) ==
  LET r == [b \in Backends |->
              IF b \notin active THEN ret[b]
              ELSE IF b = "json" THEN J.ret
              ELSE IF b = "sqlite" THEN S.ret
              ELSE M.ret]
      g == Noted(kind, k, rec, r)
      injected == {jf, sf} \ {"none"}
  IN /\ pc = "idle"
     /\ calls < MaxCalls
     /\ calls' = calls + 1
     /\ IF "json" \in active
          THEN /\ file' = J.file
               /\ backups' = J.backups
               /\ pc' = J.pc
               /\ pending' = J.pending
               /\ cont' = J.cont
          ELSE UNCHANGED << file, backups, pc, pending, cont >>
     /\ db' = IF "sqlite" \in active THEN S.db ELSE db
     /\ plan' = IF "sqlite" \in active
                  THEN IF kind = "read" /\ k # "" /\ sf = "none"
                         THEN Put(plan, k, S.order)
                         ELSE SQLite_plan_after(db, S.db, plan)
                  ELSE plan
     /\ mock' = IF "mock" \in active THEN M.threads ELSE mock
     /\ opcount' = IF "mock" \in active /\ M.ret.op \in Mock_counted
                     THEN opcount + 1 ELSE opcount
     /\ ret' = r
     /\ faults' = IF injected # {} THEN faults + 1 ELSE faults
     /\ faulted' = injected
     /\ appended' = [b \in Backends |-> g[b].appended]
     /\ pure' = [b \in Backends |-> g[b].pure]
     /\ UNCHANGED << active, cfg, now, tmp, corruptions >>

(***************************************************************************)
(* The facade.                                                             *)
(***************************************************************************)
add_email_to_thread(k, m) ==
  \E jf \in JsonFaults :
    LET rec == EmailData(m, now)
    IN \E victims \in SQLite_eviction_choices(db, k, rec) :
       \E sf \in IF SqlFaults = {"none"} THEN {"none"}
                  ELSE SQLite_add_faults(k, victims) :
         Call("add", k, rec,
              JSON_add_email_to_thread(file, backups, now, k, rec, jf),
              SQLite_add_email_to_thread(db, k, rec, sf, victims),
              Mock_add_email_to_thread(mock, k, rec),
              jf, sf)

get_thread_history(k) ==
  \E jf \in JsonFaults, sf \in SqlFaults :
    \E order \in SQLite_history_orders(db, k, plan) :
      Call("read", k, <<>>,
           JSON_get_thread_history(file, backups, now, k, jf),
           [db |-> db, ret |-> SQLite_get_thread_history(db, k, sf, order),
            order |-> order],
           [threads |-> mock, ret |-> Mock_get_thread_history(mock, k)],
           jf, sf)

load_threads ==
  \E jf \in JsonFaults, sf \in SqlFaults :
    \E orders \in SQLite_load_orders(db) :
      Call("read", "", <<>>,
           JSON_load_call(file, backups, now, jf),
           [db |-> db, ret |-> SQLite_load_threads(db, sf, orders)],
           [threads |-> mock, ret |-> Mock_load_threads(mock)],
           jf, sf)

\* the mappings the callers hand to save_threads: nothing, or one thread with
\* no record, with more than MAX_THREAD_HISTORY records of non-decreasing
\* timestamps, or with two records of which the later was stamped first
SaveRecord(i) ==
  EmailData(CHOOSE m \in Msgs : m.is_bot_reply = (i % 2 = 0),
            IF i - 1 < MaxTime THEN i - 1 ELSE MaxTime)

SaveMaps ==
  {EmptyMap, [x \in {"thread_123"} |-> << SaveRecord(2), SaveRecord(1) >>]} \cup
  { [x \in {"thread_123"} |-> [i \in 1..n |-> SaveRecord(i)]] :
      n \in {0} \cup
             ((MAX_THREAD_HISTORY + 1)..(MAX_THREAD_HISTORY + MaxOver)) }

save_threads(m) ==
  \E sf \in SqlFaults :
    Call("write", "", <<>>,
         JSON_save_threads(file, backups, m),
         SQLite_save_threads(db, m, sf),
         Mock_save_threads(mock, m),
         "none", sf)

cleanup_old_threads(d) ==
  /\ now - timedelta(d) >= 0
  /\ \E jf \in JsonFaults,
        sf \in IF SqlFaults = {"none"} THEN {"none"}
               ELSE SQLite_cleanup_faults(db, now, d) :
       Call("write", "", <<>>,
            JSON_cleanup_old_threads(file, backups, now, d, jf),
            SQLite_cleanup_old_threads(db, now, d, sf),
            Mock_cleanup_old_threads(mock, d),
            jf, sf)

get_thread_stats ==
  \E jf \in JsonFaults, sf \in SqlFaults :
    Call("read", "", <<>>,
         JSON_get_storage_stats(file, backups, now, jf),
         [db |-> db, ret |-> SQLite_get_storage_stats(db, sf)],
         [threads |-> mock, ret |-> Mock_get_storage_stats(mock)],
         jf, sf)

(***************************************************************************)
(* JSONStorageProvider.save_threads, step by step.  A step goes through    *)
(* ("ok"), raises ("fail"; "fail_keep" when removing the temporary file    *)
(* fails too), or the process dies at it ("crash").                        *)
(***************************************************************************)
SaveOutcomes ==
  IF FaultsOn
    THEN {"ok", "fail", "crash"} \cup
         (IF tmp.kind # "none" THEN {"fail_keep"} ELSE {})
    ELSE {"ok"}

\* the record an append is writing: the last one of its thread
AddedRecord == pending[cont.key][Len(pending[cont.key])]

\* save_threads is over (it returned, or the process died): its caller hands
\* back r
SaveReturns(f, tf, r, fault) ==
  LET rr == [ret EXCEPT !["json"] = r]
      g == IF cont.op = "add" THEN Noted("add", cont.key, AddedRecord, rr)
           ELSE Noted("write", "", <<>>, rr)
  IN /\ file' = f
     /\ tmp' = tf
     /\ pc' = "idle"
     /\ ret' = rr
     /\ faults' = IF fault THEN faults + 1 ELSE faults
     /\ faulted' = IF fault THEN faulted \cup {pc} ELSE faulted
     /\ appended' = [b \in Backends |-> g[b].appended]
     /\ pure' = [b \in Backends |-> g[b].pure]
     /\ UNCHANGED << active, cfg, now, backups, pending, cont, db, plan, mock, opcount,
                  calls, corruptions >>

\* the step went through and save_threads goes on at the next one
SaveGoesOn(st, next) ==
  /\ file' = st.file
  /\ tmp' = st.tmp
  /\ pc' = next
  /\ UNCHANGED << active, cfg, now, backups, pending, cont, db, plan, mock, opcount,
                  calls, ret, faults, corruptions, faulted, appended, pure >>

SaveStep(at, st, next, outcome) ==
  /\ pc = at
  /\ CASE outcome = "ok" ->
            IF next = "idle"
              THEN SaveReturns(st.file, st.tmp, AfterSave(cont, TRUE), FALSE)
              ELSE SaveGoesOn(st, next)
       [] outcome \in {"fail", "fail_keep"} ->
            SaveReturns(file, JSON_save_cleanup(tmp, outcome = "fail_keep"),
                        AfterSave(cont, FALSE), TRUE)
       [] outcome = "crash" ->
            SaveReturns(file, tmp, Crashed, TRUE)

JSON_save_open ==
  \E o \in SaveOutcomes :
    SaveStep("open", JSON_open_temp(file, tmp), "write", o)

JSON_save_write ==
  \E o \in SaveOutcomes :
    LET st == JSON_write_chunk(file, tmp, pending)
    IN SaveStep("write", st,
                IF Len(st.tmp.toks) >= Len(json_dump(pending))
                  THEN "replace" ELSE "write", o)

JSON_save_replace ==
  \E o \in SaveOutcomes : SaveStep("replace", os_replace(file, tmp), "stat", o)

\* os.path.getsize(file_path) and the logging after the replace
JSON_save_stat ==
  \E o \in SaveOutcomes :
    SaveStep("stat", [file |-> file, tmp |-> tmp], "idle", o)

(***************************************************************************)
(* The environment: the wall clock moves, forward, or back (datetime.now() *)
(* is naive local time: it steps back when the clock is set and when       *)
(* daylight saving time ends), and somebody replaces the content of the    *)
(* JSON file with invalid data.                                            *)
(***************************************************************************)
Tick ==
  /\ pc = "idle"
  /\ now < MaxTime
  /\ now' = now + 1
  /\ UNCHANGED << active, cfg, store, calls, ret, faults, corruptions, faulted,
                  appended, pure >>

ClockSetBack ==
  /\ pc = "idle"
  /\ now > 0
  /\ now' = now - 1
  /\ UNCHANGED << active, cfg, store, calls, ret, faults, corruptions, faulted,
                  appended, pure >>

\* a text cut off after its opening brace, or bytes that do not decode
InvalidContents == {BytesFile, TextFile(<< OpenTok >>)}

CorruptFile ==
  /\ pc = "idle"
  /\ active = {"json"}
  /\ corruptions < MaxCorruptions
  /\ file.kind # "none"
  /\ \E c \in InvalidContents : file' = c
  /\ pending' = EmptyMap
  /\ cont' = NoCont
  /\ ret' = [ret EXCEPT !["json"] = NoCall]
  /\ corruptions' = corruptions + 1
  /\ faulted' = {}
  /\ appended' = [appended EXCEPT !["json"] = EmptyMap]
  /\ pure' = [pure EXCEPT !["json"] = FALSE]
  /\ UNCHANGED << active, cfg, now, tmp, backups, pc, db, plan, mock, opcount,
                  calls, faults >>

\* the caller of the mock provider changes an object it got from (or gave
\* to) the last operation: the mapping, the list of a thread, a record
MutateReturned(what) ==
  LET op == ret["mock"].op
  IN /\ pc = "idle"
     /\ active = {"mock"}
     /\ what \in Mock_held(op)
     /\ \E k \in DOMAIN mock :
          /\ mock[k] # <<>>
          /\ op = "get" => ret["mock"].history = mock[k]
          /\ mock' = IF what \in Mock_shared(op)
                       THEN Mock_mutated(mock, k, what) ELSE mock
     /\ ret' = [ret EXCEPT !["mock"] = NoCall]
     /\ faulted' = {}
     /\ appended' = [appended EXCEPT !["mock"] = EmptyMap]
     /\ pure' = [pure EXCEPT !["mock"] = FALSE]
     /\ UNCHANGED << active, cfg, now, file, tmp, backups, pc, pending, cont, db,
                     plan, opcount, calls, faults, corruptions >>

\* the calls of a run that compares the providers
ParityCalls ==
  \/ \E k \in Keys, m \in Msgs : add_email_to_thread(k, m)
  \/ \E k \in Keys : get_thread_history(k)
  \/ load_threads
  \/ \E d \in DaysChoices : cleanup_old_threads(d)
  \/ get_thread_stats

Calls == ParityCalls \/ \E m \in SaveMaps : save_threads(m)

SaveSteps ==
  \/ JSON_save_open
  \/ JSON_save_write
  \/ JSON_save_replace
  \/ JSON_save_stat

NextParity == ParityCalls \/ SaveSteps \/ Tick \/ ClockSetBack

Next ==
  \/ Calls
  \/ SaveSteps
  \/ Tick
  \/ ClockSetBack
  \/ CorruptFile
  \/ \E what \in {"mapping", "list", "record"} : MutateReturned(what)

Spec == Init /\ [][Next]_vars

(***************************************************************************)
(* From the configuration file to the cap of the store (config_loader.py   *)
(* and the head of thread_manager.py): the process constructs the global   *)
(* Config, which reads config.yaml; config_loader.py run as a script then  *)
(* calls validate_config; main.py imports thread_manager, which takes      *)
(* MAX_THREAD_HISTORY from config.max_thread_history, and appends to the   *)
(* store (the mock provider here).                                         *)
(***************************************************************************)
\* Config.get("threading.max_history", 5)
max_thread_history(y) == IF y.set THEN y.value ELSE DefaultMaxHistory

\* the check of threading.max_history in validate_config
validate_config(y) == IF max_thread_history(y) < 1 THEN "raised" ELSE "passed"

InitConfig ==
  /\ active = {"mock"}
  /\ InitStore
  /\ program \in {"main", "config_loader"}
  /\ yaml \in {Unset} \cup {Value(n) : n \in ConfiguredValues}
  /\ cap = Unset
  /\ validation = "none"
  /\ context = NoContext
  /\ MailIdle

\* config_loader.py as a script: config.validate_config()
Config_validate ==
  /\ program = "config_loader"
  /\ validation = "none"
  /\ validation' = validate_config(yaml)
  /\ UNCHANGED << active, store, now, calls, ret, faults, corruptions, faulted,
                  appended, pure, program, yaml, cap, context,
                  sending, pipeline, mailbox >>

\* import of thread_manager: MAX_THREAD_HISTORY = config.max_thread_history
Import_thread_manager ==
  /\ program = "main"
  /\ ~cap.set
  /\ cap' = Value(max_thread_history(yaml))
  /\ UNCHANGED << active, store, now, calls, ret, faults, corruptions, faulted,
                  appended, pure, program, yaml, validation, context,
                  sending, pipeline, mailbox >>

\* MockStorageProvider.add_email_to_thread under the cap the module took
Mock_add_under(threads, k, rec, H) ==
  LET h == Append(Get(threads, k), rec)
  IN [threads |-> Put(threads, k, IF Len(h) > H THEN SliceLast(h, H) ELSE h),
      ret |-> Returned("add", TRUE)]

Config_add(k, m) ==
  LET M == Mock_add_under(mock, k, EmailData(m, now), cap.value)
  IN /\ cap.set
     /\ calls < MaxAppends
     /\ calls' = calls + 1
     /\ mock' = M.threads
     /\ opcount' = opcount + 1
     /\ ret' = [ret EXCEPT !["mock"] = M.ret]
     /\ UNCHANGED << active, cfg, now, file, tmp, backups, pc, pending, cont,
                     db, plan, faults, corruptions, faulted, appended, pure >>

NextConfig ==
  \/ Config_validate
  \/ Import_thread_manager
  \/ \E m \in Msgs : Config_add("thread_123", m)

SpecConfig == InitConfig /\ [][NextConfig]_vars

(***************************************************************************)
(* format_thread_context: the text is the sequence of its lines (joined    *)
(* with newlines in the code): a heading, four lines per record (From,     *)
(* Subject, Message, a rule of dashes) and the closing instruction.        *)
(***************************************************************************)
Line(kind, text) == [kind |-> kind, text |-> text]

\* a format_thread_context that labels every record with its sender
sender_label_BySender(email) == email.sender

\* "Bot" if is_bot else email.get("sender", "Unknown")
sender_label(email) == IF email.is_bot_reply THEN "Bot" ELSE email.sender

\* the four lines the loop appends for one record
ContextBlock(email) ==
  << Line("from", sender_label(email)),
     Line("subject", email.subject),
     Line("message", email.body),
     Line("rule", "-") >>

RECURSIVE ContextBlocks(_)
ContextBlocks(h) ==
  IF h = <<>> THEN <<>> ELSE ContextBlock(Head(h)) \o ContextBlocks(Tail(h))

format_thread_context(thread_history) ==
  IF thread_history = <<>> THEN <<>>
  ELSE << Line("heading", "Here is the conversation history:") >>
       \o ContextBlocks(thread_history)
       \o << Line("marker", "Now please reply to the latest email below:") >>

\* the histories handed to format_thread_context: up to MaxContext records
\* of the facade
ContextRecords == {EmailData(m, t) : m \in Msgs, t \in 0..1}

ContextInputs == UNION {[1..n -> ContextRecords] : n \in 0..MaxContext}

InitFormat ==
  /\ active = {"mock"}
  /\ InitStore
  /\ program = "main"
  /\ yaml = Value(MAX_THREAD_HISTORY)
  /\ cap = Value(MAX_THREAD_HISTORY)
  /\ validation = "none"
  /\ context \in {[history |-> h, text |-> <<>>, done |-> FALSE] :
                    h \in ContextInputs}
  /\ MailIdle

Format_call ==
  /\ ~context.done
  /\ context' = [history |-> context.history,
                 text |-> format_thread_context(context.history),
                 done |-> TRUE]
  /\ UNCHANGED << active, store, now, calls, ret, faults, corruptions, faulted,
                  appended, pure, program, yaml, cap, validation,
                  sending, pipeline, mailbox >>

NextFormat == Format_call

SpecFormat == InitFormat /\ [][NextFormat]_vars

(***************************************************************************)
(* mail_sender.py: send_replies_for_emails.                                *)
(***************************************************************************)
Uids == {1001, 1002}
Senders == {"", "Ann <ann@example.com>"}
ReplyTexts == {"", " ", "Thank you"}

\* an email as the mail reader hands it on: (sender, subject, body, uid,
\* thread_id)
Email(sender, uid, thread_id) ==
  [sender |-> sender, subject |-> "Q", body |-> "A", uid |-> uid,
   thread_id |-> thread_id]

\* str.strip() of the texts used here
strip(text) == IF text = " " THEN "" ELSE text

\* the address in angle brackets if there is one, else the field stripped
extract_email_address(from_field) ==
  IF from_field = "" THEN ""
  ELSE IF from_field = "Ann <ann@example.com>" THEN "ann@example.com"
  ELSE strip(from_field)

\* {uid: reply for uid, reply in replies}: the last entry of a uid wins
reply_dict(replies) ==
  LET at(u) == {j \in 1..Len(replies) : replies[j].uid = u}
      last(u) == CHOOSE j \in at(u) : \A l \in at(u) : l <= j
  IN [u \in {replies[j].uid : j \in 1..Len(replies)} |-> replies[last(u)].reply]

\* what send_reply and the loop body around it can do: the mail goes out,
\* send_reply returns False, or an exception reaches the handler of the loop
SendOutcomes == {"sent", "failed", "raise"}

\* not reply_text.strip(), and what it would be without the strip
reply_is_blank_Exact(reply_text) == reply_text = ""
reply_is_blank(reply_text) == strip(reply_text) = ""

\* whether the loop body gets to the send_reply call for this email
send_is_attempted(email, dict) ==
  /\ email.uid \in DOMAIN dict
  /\ ~reply_is_blank(dict[email.uid])
  /\ extract_email_address(email.sender) # ""

\* the loop over the emails: one (uid, success) entry per email
RECURSIVE send_loop(_, _, _, _)
send_loop(batch, dict, sends, acc) ==
  IF Len(acc.results) = Len(batch) THEN acc
  ELSE LET i == Len(acc.results) + 1
           go == send_is_attempted(batch[i], dict)
       IN send_loop(batch, dict, sends,
            [results |-> Append(acc.results,
                           [uid |-> batch[i].uid,
                            success |-> go /\ sends[i] = "sent"]),
             attempted |-> IF go THEN acc.attempted \cup {i} ELSE acc.attempted])

\* the result list, and the positions of the emails handed to send_reply
send_replies_for_emails(batch, replies, sends) ==
  IF batch = <<>> \/ replies = <<>>
    THEN [results |-> <<>>, attempted |-> {}]
    ELSE send_loop(batch, reply_dict(replies), sends,
                   [results |-> <<>>, attempted |-> {}])

\* the sequences over S of at most n elements
SeqsUpTo(S, n) == UNION {[1..l -> S] : l \in 0..n}

SendEmails == {Email(a, u, "thread_123") : a \in Senders, u \in Uids}
SendReplies == {[uid |-> u, reply |-> r] : u \in Uids, r \in ReplyTexts}

InitSend ==
  /\ active = {"mock"}
  /\ InitStore
  /\ Configured
  /\ MainIdle
  /\ MockMailProvider_init
  /\ sending \in {[emails |-> e, replies |-> r, sends |-> o, attempted |-> {},
                    results |-> <<>>, done |-> FALSE] :
                     e \in SeqsUpTo(SendEmails, MaxBatch),
                     r \in SeqsUpTo(SendReplies, MaxBatch),
                     o \in [1..MaxBatch -> SendOutcomes]}

Send_call ==
  LET R == send_replies_for_emails(sending.emails, sending.replies, sending.sends)
  IN /\ ~sending.done
     /\ sending' = [sending EXCEPT !.results = R.results,
                                    !.attempted = R.attempted,
                                    !.done = TRUE]
     /\ UNCHANGED << active, store, now, calls, ret, faults, corruptions, faulted,
                     appended, pure, program, yaml, cap, validation, context,
                     pipeline, mailbox >>

NextSend == Send_call

SpecSend == InitSend /\ [][NextSend]_vars

(***************************************************************************)
(* mail_reader.py: MockMailProvider.                                       *)
(***************************************************************************)
test_emails ==
  << [sender |-> "customer@example.com", subject |-> "Product Inquiry",
      body |-> "Hi, I'm interested in your products. Can you tell me more about pricing?",
      uid |-> 1001, thread_id |-> "thread_001"],
     [sender |-> "support@testcompany.com", subject |-> "Website Issue",
      body |-> "I'm having trouble logging into your website. Can you help?",
      uid |-> 1002, thread_id |-> "thread_002"],
     [sender |-> "john.doe@business.net", subject |-> "Partnership Opportunity",
      body |-> "We'd like to discuss a potential partnership with your company.",
      uid |-> 1003, thread_id |-> "thread_003"],
     [sender |-> "feedback@customer.org", subject |-> "Great Service",
      body |-> "Just wanted to say thanks for the excellent customer service!",
      uid |-> 1004, thread_id |-> "thread_004"],
     [sender |-> "billing@vendor.com", subject |-> "Invoice Question",
      body |-> "I have a question about invoice #12345. Can you clarify the charges?",
      uid |-> 1005, thread_id |-> "thread_005"] >>

\* the uids mark_email_as_processed is called with: those of the test
\* emails, and one that no test email has
MarkUids == {test_emails[i].uid : i \in 1..Len(test_emails)} \cup {4242}

\* [email for email in self.test_emails if email[3] not in self.processed_uids]
unseen_emails(processed) ==
  LET keep == {i \in 1..Len(test_emails) : test_emails[i].uid \notin processed}
      nth(j) == CHOOSE i \in keep : Cardinality({x \in keep : x < i}) = j - 1
  IN [j \in 1..Cardinality(keep) |-> test_emails[nth(j)]]

\* for email in unseen_emails: self.processed_uids.add(email[3]); and what
\* the set would be without that loop
mark_fetched_Skipped(processed, unseen) == processed
mark_fetched(processed, unseen) ==
  processed \cup {unseen[i].uid : i \in 1..Len(unseen)}

InitMail ==
  /\ active = {"mock"}
  /\ InitStore
  /\ Configured
  /\ sending = NoSending
  /\ MainIdle
  /\ MockMailProvider_init

MockMail_connect ==
  /\ ~is_connected
  /\ is_connected' = TRUE
  /\ UNCHANGED << active, store, now, calls, ret, faults, corruptions, faulted,
                  appended, pure, program, yaml, cap, validation, context,
                  sending, pipeline, processed_uids, call_count, fetched >>

MockMail_disconnect ==
  /\ is_connected
  /\ is_connected' = FALSE
  /\ UNCHANGED << active, store, now, calls, ret, faults, corruptions, faulted,
                  appended, pure, program, yaml, cap, validation, context,
                  sending, pipeline, processed_uids, call_count, fetched >>

MockMail_mark_email_as_processed(uid) ==
  /\ processed_uids' = processed_uids \cup {uid}
  /\ UNCHANGED << active, store, now, calls, ret, faults, corruptions, faulted,
                  appended, pure, program, yaml, cap, validation, context,
                  sending, pipeline, is_connected, call_count, fetched >>

\* connects if need be, returns the unseen emails, disconnects
MockMail_fetch_unseen_emails ==
  /\ call_count < MaxFetches
  /\ fetched' = unseen_emails(processed_uids)
  /\ call_count' = call_count + 1
  /\ is_connected' = FALSE
  /\ UNCHANGED << active, store, now, calls, ret, faults, corruptions, faulted,
                  appended, pure, program, yaml, cap, validation, context,
                  sending, pipeline, processed_uids >>

MockMail_fetch_unseen_emails_and_mark_processed ==
  /\ call_count < MaxFetches
  /\ fetched' = unseen_emails(processed_uids)
  /\ processed_uids' = mark_fetched(processed_uids, unseen_emails(processed_uids))
  /\ call_count' = call_count + 1
  /\ is_connected' = FALSE
  /\ UNCHANGED << active, store, now, calls, ret, faults, corruptions, faulted,
                  appended, pure, program, yaml, cap, validation, context,
                  sending, pipeline >>

NextMail ==
  \/ MockMail_connect
  \/ MockMail_disconnect
  \/ \E uid \in MarkUids : MockMail_mark_email_as_processed(uid)
  \/ MockMail_fetch_unseen_emails
  \/ MockMail_fetch_unseen_emails_and_mark_processed

SpecMail == InitMail /\ [][NextMail]_vars

(***************************************************************************)
(* main.py: the pipeline.  Step 2 is one step per email, steps 3 and 4 are *)
(* one step, and step 5 is one step per add_email_to_thread call.          *)
(***************************************************************************)
\* the thread ids of fetched emails: two conversations, and none
MainThreads == {"", "old_thread_1", "thread_123"}

\* the batches step 1 can fetch: the uids of a batch are distinct
Batches ==
  {[i \in 1..n |-> Email("Ann <ann@example.com>", 1000 + i, t[i])] :
     n \in 0..MaxBatch, t \in [1..MaxBatch -> MainThreads]}

\* the thread store before the run: empty, or one conversation with a
\* record of an earlier run
PriorStores ==
  {EmptyMap,
   Put(EmptyMap, "thread_123",
       << EmailData([uid |-> 7, sender |-> "Ann <ann@example.com>",
                     subject |-> "Q", body |-> "A", is_bot_reply |-> FALSE], 0) >>)}

\* how generate_enhanced_reply ends for one email: it returns a text, or
\* an exception reaches the handler of the loop, which keeps ""
ReplyOutcomes ==
  {[raised |-> FALSE, reply |-> r] : r \in ReplyTexts} \cup
  {[raised |-> TRUE, reply |-> ""]}

\* how an add_email_to_thread call ends: stored and True, not stored and
\* False, stored and False all the same (a JSON save that fails after the
\* rename), or with an exception
AddOutcomes == {"ok", "fail", "late", "raise"}

\* result_dict = {uid: success for uid, success in results}
result_dict(list) ==
  LET at(u) == {j \in 1..Len(list) : list[j].uid = u}
      last(u) == CHOOSE j \in at(u) : \A l \in at(u) : l <= j
  IN [u \in {list[j].uid : j \in 1..Len(list)} |-> list[last(u)].success]

\* reply and reply.strip() and result_dict.get(uid, False); and what it
\* would be without the look at the send result
reply_is_stored_Unsent(reply, dict, uid) == reply # "" /\ strip(reply) # ""
reply_is_stored(reply, dict, uid) ==
  /\ reply # ""
  /\ strip(reply) # ""
  /\ uid \in DOMAIN dict
  /\ dict[uid]

\* the handler of step 5's loop body: storage_failures += 1; and what it
\* would be if the handler only logged
after_storage_error_Logged(failures) == failures
after_storage_error(failures) == failures + 1

\* the order of the steps: where main goes on after the step it is in, for
\* a batch of n emails; and what it would be if each email were stored
\* right after its reply was generated
next_position_PerEmail(at, i, n) ==
  IF at = "reply" THEN [step |-> "store_inbound", idx |-> i]
  ELSE IF at = "store"
    THEN IF i < n THEN [step |-> "reply", idx |-> i + 1]
         ELSE [step |-> "send", idx |-> 0]
  ELSE [step |-> "done", idx |-> 0]
next_position(at, i, n) ==
  IF at = "reply"
    THEN IF i < n THEN [step |-> "reply", idx |-> i + 1]
         ELSE [step |-> "send", idx |-> 0]
  ELSE IF at = "send" THEN [step |-> "store_inbound", idx |-> 1]
  ELSE IF i < n THEN [step |-> "store_inbound", idx |-> i + 1]
  ELSE [step |-> "done", idx |-> 0]

\* the record of an inbound email, and of the bot's reply to it
InboundRecord(email, t) ==
  EmailData([uid |-> email.uid, sender |-> email.sender,
             subject |-> email.subject, body |-> email.body,
             is_bot_reply |-> FALSE], t)
ReplyRecord(email, reply, t) ==
  EmailData([uid |-> 0, sender |-> "bot@example.com",
             subject |-> "Re: Q", body |-> reply, is_bot_reply |-> TRUE], t)

\* the store after an add_email_to_thread call that ended as o
StoreAfter(threads, k, rec, o) ==
  IF o \in {"ok", "late"} THEN Mock_add_email_to_thread(threads, k, rec).threads
  ELSE threads

\* the records appended for the email at position i, after an
\* add_email_to_thread call for it that ended as o
StoredAfter(list, i, k, rec, o) ==
  IF o \in {"ok", "late"}
    THEN [list EXCEPT ![i] = Append(@, [record |-> rec, thread_id |-> k,
                                        saved |-> o = "ok"])]
    ELSE list

InitMain ==
  /\ active = {"mock"}
  /\ now = 0
  /\ file = NoFile
  /\ tmp = NoFile
  /\ backups = EmptyMap
  /\ pc = "idle"
  /\ pending = EmptyMap
  /\ cont = NoCont
  /\ db = <<>>
  /\ plan = EmptyMap
  /\ mock \in PriorStores
  /\ opcount = 0
  /\ calls = 0
  /\ ret = [b \in Backends |-> NoCall]
  /\ faults = 0
  /\ corruptions = 0
  /\ faulted = {}
  /\ appended = [b \in Backends |-> EmptyMap]
  /\ pure = [b \in Backends |-> TRUE]
  /\ Configured
  /\ sending = NoSending
  /\ MainIdle
  /\ MockMailProvider_init

\* what no step of main touches
MainFrame ==
  UNCHANGED << active, now, file, tmp, backups, pc, pending, cont, db, plan,
               opcount, calls, ret, faults, corruptions, faulted, appended,
               pure, program, yaml, cap, validation, context, sending, mailbox >>

\* step 1: the fetch; main returns if there is nothing to do
Main_fetch ==
  /\ step = "idle"
  /\ \E batch \in Batches :
       /\ emails' = batch
       /\ stored' = [i \in 1..Len(batch) |-> <<>>]
       /\ step' = IF batch = <<>> THEN "done" ELSE "reply"
       /\ idx' = IF batch = <<>> THEN 0 ELSE 1
  /\ UNCHANGED << mock, enhanced_results, contexts, results, original_saved,
                  storage_successes, storage_failures >>
  /\ MainFrame

\* step 2, one email: generate_enhanced_reply reads the history of the
\* email's thread if it has a thread id, and the result is kept
Main_reply ==
  /\ step = "reply"
  /\ \E out \in ReplyOutcomes :
       LET email == emails[idx]
           go == next_position("reply", idx, Len(emails))
       IN /\ contexts' = Append(contexts,
                           IF email.thread_id # ""
                             THEN Mock_get_thread_history(mock, email.thread_id).history
                             ELSE <<>>)
          /\ enhanced_results' = Append(enhanced_results,
                                    [email_data |-> email, reply |-> out.reply])
          /\ step' = go.step
          /\ idx' = go.idx
  /\ UNCHANGED << mock, emails, results, original_saved, storage_successes,
                  storage_failures, stored >>
  /\ MainFrame

\* steps 3 and 4: the replies are paired with their uids and sent
Main_send ==
  /\ step = "send"
  /\ \E sends \in [1..MaxBatch -> SendOutcomes] :
       LET replies_for_sender ==
             [i \in 1..Len(enhanced_results) |->
                [uid |-> enhanced_results[i].email_data.uid,
                 reply |-> enhanced_results[i].reply]]
           emails_for_sender ==
             [i \in 1..Len(enhanced_results) |-> enhanced_results[i].email_data]
           go == next_position("send", idx, Len(emails))
       IN /\ results' = send_replies_for_emails(emails_for_sender,
                                                replies_for_sender, sends).results
          /\ step' = go.step
          /\ idx' = go.idx
  /\ UNCHANGED << mock, emails, enhanced_results, contexts, original_saved,
                  storage_successes, storage_failures, stored >>
  /\ MainFrame

\* step 5, one email: the append of the inbound email
Main_store_inbound ==
  /\ step = "store_inbound"
  /\ \E o \in AddOutcomes :
       LET email == enhanced_results[idx].email_data
           rec == InboundRecord(email, now)
           go == next_position("store", idx, Len(emails))
       IN /\ mock' = StoreAfter(mock, email.thread_id, rec, o)
          /\ stored' = StoredAfter(stored, idx, email.thread_id, rec, o)
          /\ original_saved' = IF o = "raise" THEN original_saved ELSE o = "ok"
          /\ storage_failures' =
               IF o = "ok" THEN storage_failures
               ELSE IF o = "raise" THEN after_storage_error(storage_failures)
               ELSE storage_failures + 1
          /\ step' = IF o = "ok" THEN "store_reply" ELSE go.step
          /\ idx' = IF o = "ok" THEN idx ELSE go.idx
  /\ UNCHANGED << emails, enhanced_results, contexts, results, storage_successes >>
  /\ MainFrame

\* step 5, the same email after its inbound record was saved: the append
\* of the bot's reply if one was generated and sent, and the counting
Main_store_reply ==
  /\ step = "store_reply"
  /\ LET email == enhanced_results[idx].email_data
         reply == enhanced_results[idx].reply
         rec == ReplyRecord(email, reply, now)
         go == next_position("store", idx, Len(emails))
     IN /\ IF reply_is_stored(reply, result_dict(results), email.uid)
             THEN \E o \in AddOutcomes :
                    /\ mock' = StoreAfter(mock, email.thread_id, rec, o)
                    /\ stored' = StoredAfter(stored, idx, email.thread_id, rec, o)
                    /\ storage_successes' =
                         IF o = "ok" THEN storage_successes + 1
                         ELSE storage_successes
                    /\ storage_failures' =
                         IF o = "ok" THEN storage_failures
                         ELSE IF o = "raise"
                           THEN after_storage_error(storage_failures)
                         ELSE storage_failures + 1
             ELSE /\ storage_successes' = storage_successes + 1
                  /\ UNCHANGED << mock, stored, storage_failures >>
        /\ step' = go.step
        /\ idx' = go.idx
  /\ UNCHANGED << emails, enhanced_results, contexts, results, original_saved >>
  /\ MainFrame

NextMain ==
  \/ Main_fetch
  \/ Main_reply
  \/ Main_send
  \/ Main_store_inbound
  \/ Main_store_reply

SpecMain == InitMain /\ [][NextMain]_vars

SpecParity == InitParity /\ [][NextParity]_vars

\* the configured provider from the empty store, driven through the facade
\* only (appends, reads, cleanups, statistics), with faults
SpecFacade == Init /\ [][NextParity]_vars

(***************************************************************************)
(* What the claims speak of.                                               *)
(***************************************************************************)
\* the records provider b stores for thread k, in the order they were stored
Stored(b, k) ==
  IF b = "json" THEN Get(Persisted(file), k)
  ELSE IF b = "sqlite" THEN RowsInOrder(db, k)
  ELSE Get(mock, k)

\* the thread keys provider b stores
StoredKeys(b) ==
  IF b = "json" THEN DOMAIN Persisted(file)
  ELSE IF b = "sqlite" THEN ThreadIds(db)
  ELSE DOMAIN mock

\* what get_thread_history(k) can hand back on provider b when nothing fails
GetResults(b, k) ==
  IF b = "json"
    THEN {JSON_get_thread_history(file, backups, now, k, "none").ret.history}
  ELSE IF b = "sqlite"
    THEN {SQLite_get_thread_history(db, k, "none", o).history :
            o \in SQLite_history_orders(db, k, plan)}
  ELSE {Mock_get_thread_history(mock, k).history}

\* C1: on each provider, starting from the empty store, after any sequence of
\* successful add_email_to_thread calls (and reads), get_thread_history(k)
\* has at most MAX_THREAD_HISTORY records and equals the last
\* min(n, MAX_THREAD_HISTORY) records appended to k, in append order.
C1_CapInvariant ==
  pc = "idle" =>
    \A b \in active :
      pure[b] =>
        \A k \in Keys : \A r \in GetResults(b, k) :
          /\ Len(r) <= MAX_THREAD_HISTORY
          /\ r = Get(appended[b], k)

\* C2: in every persisted state, also one that save_threads installed with
\* more than MAX_THREAD_HISTORY records in a thread, get_thread_history(k)
\* returns at most MAX_THREAD_HISTORY records, which are the most recent
\* records of k oldest first, and the empty sequence for a key that is not
\* stored; on every provider.
C2_HistoryIsCapped ==
  [][\A k \in Keys :
       (get_thread_history(k) /\ faulted' = {}) =>
         \A b \in active :
           /\ ~ret'[b].raised
           /\ Len(ret'[b].history) <= MAX_THREAD_HISTORY
           /\ ret'[b].history = SliceLast(Stored(b, k), MAX_THREAD_HISTORY)
           /\ k \notin StoredKeys(b) => ret'[b].history = <<>>]_vars

\* C3: an append on the JSON provider is all-or-nothing: when a step of the
\* call fails or the process dies at it (during the load, the writing of the
\* temporary file, or the rename), the mapping under the canonical path is
\* afterwards the mapping before the call, or that mapping with the record
\* appended and the cap applied; and it is the mapping before the call
\* whenever the call returned False.
C3_AppendAllOrNothing ==
  (/\ cont.op = "add"
   /\ faulted # {}
   /\ faulted \subseteq {"read", "rename", "open", "write", "replace"}) =>
    LET before == Persisted(cont.base)
        after == AppendTrim(before, cont.key, AddedRecord)
    IN /\ Persisted(file) \in {before, after}
       /\ ret["json"] = Returned("add", FALSE) => Persisted(file) = before

\* C4: save_threads of the JSON provider is atomic: at every step of a save
\* (temporary file opened, partly written, renamed over the target), and
\* after a failure or a crash at any of them, the canonical path holds the
\* complete document it held before the call, unchanged, or the complete new
\* document, never a part of one.
C4_SaveIsAtomic ==
  cont.op # "none" => file \in {cont.base, TextFile(json_dump(pending))}

\* the process died while the temporary file was half written, and the
\* document saved before is still in place
C4_Witness ==
  /\ ret["json"] = Crashed
  /\ faulted = {"write"}
  /\ cont.op = "save"
  /\ tmp.kind = "text"
  /\ Len(tmp.toks) \in 1..(Len(json_dump(pending)) - 1)
  /\ file = cont.base
  /\ file.kind = "text"
  /\ file # TextFile(json_dump(pending))

\* C5: every operation of every provider comes back with a value of its kind
\* (a Boolean, a mapping, a sequence, a count, a statistics record) and never
\* raises to its caller, whatever file system or database fault is injected
\* at whatever step of it.
C5_NeverRaises ==
  \A b \in active :
    /\ ~ret[b].raised
    /\ (pc = "idle" /\ calls > 0 /\ ret[b].op # "none") =>
         ret[b].op \in {"add", "save", "cleanup", "get", "load", "stats",
                        "crashed"}
    /\ ret[b].op = "cleanup" => ret[b].count \in 0..Cardinality(Keys)
    /\ ret[b].op = "get" => DOMAIN ret[b].history = 1..Len(ret[b].history)
    /\ ret[b].op = "load" => DOMAIN ret[b].threads \subseteq Keys

\* reading the existing file failed inside get_thread_history, which handed
\* back the empty history
C5_Witness ==
  /\ active = {"json"}
  /\ faulted = {"read"}
  /\ file.kind = "text"
  /\ ret["json"] = Returned("get", <<>>)

\* C6: the facade's add_email_to_thread with an empty thread key returns
\* False and touches nothing of the provider: no record, thread, file, table
\* row or operation counter changes, on every provider.
C6_EmptyKeyRejected ==
  [][\A m \in Msgs :
       add_email_to_thread("", m) =>
         /\ \A b \in active : ret'[b] = Returned("add", FALSE)
         /\ durable' = durable]_vars

\* the clock reading an ISO string was printed from
fromisoformat(s) == 2 * s[1] + (IF Len(s) = 2 THEN 1 ELSE 0)

\* the newest record of the history h is strictly older than the time c
AllOlder(h, c) ==
  h # <<>> /\ \A i \in 1..Len(h) : fromisoformat(h[i].timestamp) < c

\* h has a record stamped at the time c or later
SomeFresh(h, c) == \E i \in 1..Len(h) : fromisoformat(h[i].timestamp) >= c

\* cleanup took the mapping from before to after: its fresh threads stayed as
\* they were and, when it ran through (done), its stale threads are gone
CleanedByAge(before, after, c, done) ==
  \A k \in DOMAIN before :
    /\ SomeFresh(before[k], c) => k \in DOMAIN after /\ after[k] = before[k]
    /\ (done /\ AllOlder(before[k], c)) => k \notin DOMAIN after

\* the table as a mapping: the records of each thread in row id order
TableMap(t) == [k \in ThreadIds(t) |-> RowsInOrder(t, k)]

\* C7: cleanup_old_threads(d) on the JSON and SQLite providers, with the
\* cutoff now - d days: every thread whose newest record is strictly older
\* than the cutoff is removed with all its records (when no step of the call
\* failed), and every thread with a record at or after the cutoff keeps all
\* its records, unchanged and in the same order, whatever happens.
C7_CleanupByNewest ==
  [][/\ \A d \in DaysChoices :
          cleanup_old_threads(d) =>
            /\ "sqlite" \in active =>
                 CleanedByAge(TableMap(db), TableMap(db'), now - timedelta(d),
                              faulted' = {})
            /\ "json" \in active =>
                 CleanedByAge(Persisted(file), Persisted(file'),
                              now - timedelta(d),
                              pc' = "idle" /\ faulted' = {})
     /\ (cont.op = "cleanup" /\ pc # "idle") =>
          CleanedByAge(Persisted(cont.base), Persisted(file'),
                       now - timedelta(cont.days),
                       pc' = "idle" /\ faulted' = {})]_vars

\* a cleanup of the JSON file ran through: it removed the stale thread and
\* kept the thread that has an old record besides its fresh ones
C7_Witness ==
  /\ ret["json"] = Returned("cleanup", 1)
  /\ faulted = {}
  /\ cont.op = "cleanup"
  /\ "old_thread_1" \in DOMAIN Persisted(cont.base)
  /\ "old_thread_1" \notin DOMAIN Persisted(file)
  /\ "thread_123" \in DOMAIN Persisted(file)
  /\ LET h == Persisted(file)["thread_123"]
     IN /\ h = Persisted(cont.base)["thread_123"]
        /\ SomeFresh(h, now - timedelta(cont.days))
        /\ \E i \in 1..Len(h) :
             fromisoformat(h[i].timestamp) < now - timedelta(cont.days)

\* C8: on every provider cleanup_old_threads returns the number of thread
\* keys that were stored before the call and are not stored after it, and 0
\* exactly when it removed none.
C8_CleanupCount ==
  [][/\ \A d \in DaysChoices :
          cleanup_old_threads(d) =>
            /\ "sqlite" \in active =>
                 ret'["sqlite"].count =
                   Cardinality(ThreadIds(db) \ ThreadIds(db'))
            /\ "mock" \in active =>
                 ret'["mock"].count = Cardinality(DOMAIN mock \ DOMAIN mock')
            /\ ("json" \in active /\ pc' = "idle") =>
                 ret'["json"].count =
                   Cardinality(DOMAIN Persisted(file) \ DOMAIN Persisted(file'))
     /\ (cont.op = "cleanup" /\ pc # "idle" /\ ret'["json"].op = "cleanup") =>
          ret'["json"].count =
            Cardinality(DOMAIN Persisted(cont.base) \ DOMAIN Persisted(file'))]_vars

\* what load_threads can hand back on provider b when nothing fails
LoadResults(b) ==
  IF b = "json" THEN {JSON_load_call(file, backups, now, "none").ret.threads}
  ELSE IF b = "sqlite"
    THEN {SQLite_load_threads(db, "none", o).threads : o \in SQLite_load_orders(db)}
  ELSE {Mock_load_threads(mock).threads}

\* the statistics provider b can report when nothing fails
StatsResults(b) ==
  IF b = "json" THEN {JSON_get_storage_stats(file, backups, now, "none").ret.stats}
  ELSE IF b = "sqlite" THEN {SQLite_get_storage_stats(db, "none").stats}
  ELSE {Mock_get_storage_stats(mock).stats}

\* C9: the JSON, SQLite and mock providers, driven side by side from empty
\* stores with the same append, get-history, load, cleanup and stats calls,
\* agree after every call on the value returned, on the ordered history of
\* every thread and on the six statistics counters.
C9_BackendParity ==
  (active = Backends /\ pc = "idle") =>
    \A a, b \in Backends :
      /\ ret[a] = ret[b]
      /\ \A k \in Keys : GetResults(a, k) = GetResults(b, k)
      /\ StatsResults(a) = StatsResults(b)

\* the file holds a document that json.load accepts
Parses(f) == f.kind = "text" /\ WellFormed(f.toks)

\* C10: when the canonical file exists and does not parse, load_threads of
\* the JSON provider returns the empty mapping, a backup file named with the
\* time holds the invalid content as it was, the canonical path holds it no
\* longer, and the store goes on as an empty store.
C10_CorruptionRecovery ==
  [][(/\ load_threads
      /\ active = {"json"}
      /\ file.kind # "none"
      /\ ~Parses(file)
      /\ faulted' = {}) =>
       /\ ret'["json"] = Returned("load", EmptyMap)
       /\ EpochSeconds(now) \in DOMAIN backups'
       /\ backups'[EpochSeconds(now)] = file
       /\ file' = NoFile]_vars

\* C11: an add_email_to_thread call on thread k leaves the stored history of
\* every other thread exactly as it was, on every provider and also when
\* reading or writing the store fails during the call.
C11_AddLeavesOthers ==
  [][/\ \A k \in Keys, m \in Msgs :
          add_email_to_thread(k, m) =>
            \A t \in Keys \ {k} :
              /\ "sqlite" \in active => RowsInOrder(db', t) = RowsInOrder(db, t)
              /\ "mock" \in active => Get(mock', t) = Get(mock, t)
              /\ "json" \in active =>
                   Get(Persisted(file'), t) = Get(Persisted(file), t)
     /\ (cont.op = "add" /\ pc # "idle") =>
          \A t \in Keys \ {cont.key} :
            Get(Persisted(file'), t) = Get(Persisted(cont.base), t)]_vars

\* C12: a get_thread_history(k) call that nothing fails in leaves the stored
\* mapping of its provider as it was (no thread appears for an unknown key,
\* no record is added, removed or reordered), and a get_thread_history(k)
\* call that follows it returns the same sequence; on every provider.
C12_ReadIdempotent ==
  [][\A k \in Keys :
       (get_thread_history(k) /\ faulted' = {}) =>
         /\ \A b \in active : GetResults(b, k)' = {ret'[b].history}
         /\ "json" \in active => Persisted(file') = Persisted(file)
         /\ "sqlite" \in active => db' = db
         /\ "mock" \in active => mock' = mock]_vars

\* a history of two records with the same timestamp was read from the SQLite
\* table, which left the order of the two to the engine
C12_Witness ==
  /\ active = {"sqlite"}
  /\ ret["sqlite"].op = "get"
  /\ Len(ret["sqlite"].history) = 2
  /\ ret["sqlite"].history[1].timestamp = ret["sqlite"].history[2].timestamp
  /\ ret["sqlite"].history[1] # ret["sqlite"].history[2]
  /\ "thread_123" \in DOMAIN plan
  /\ faulted = {}

\* C13: cleanup_old_threads(d) of the mock provider removes exactly the
\* threads that the JSON provider removes from the same mapping: those whose
\* newest record is older than now - d days and those without a record,
\* whatever the text of the thread key; the other threads stay as they were.
C13_MockCleanupByAge ==
  [][\A d \in DaysChoices :
       (cleanup_old_threads(d) /\ "mock" \in active) =>
         LET stale == StaleThreads(mock, isoformat(now - timedelta(d)))
         IN /\ mock' = Drop(mock, stale)
            /\ ret'["mock"] = Returned("cleanup", Cardinality(stale))]_vars

\* C14: the copies of the mock provider are defensive: when the caller
\* changes an object that load_threads or get_thread_history returned (the
\* mapping, a thread's list, a record), or the mapping or a list it passed to
\* save_threads, the provider's mapping, and with it what later load_threads
\* and get_thread_history calls return, stays as it was.
C14_MockDefensiveCopies ==
  [][\A what \in {"mapping", "list", "record"} :
       MutateReturned(what) =>
         /\ mock' = mock
         /\ \A k \in Keys : GetResults("mock", k)' = GetResults("mock", k)]_vars

\* C15: on every provider, after a save_threads(m) that returned True, a
\* load_threads that nothing fails in returns m: the thread keys of m, and
\* for each key the records of m in the order of m; nothing else.
C15_SaveLoadRoundTrip ==
  [][/\ \A m \in SaveMaps :
          save_threads(m) =>
            \A b \in active \ {"json"} :
              ret'[b] = Returned("save", TRUE) => LoadResults(b)' = {m}
     /\ (cont.op = "save" /\ pc # "idle"
         /\ ret'["json"] = Returned("save", TRUE)) =>
          LoadResults("json")' = {pending}]_vars

\* the mapping provider b stores
StoredMap(b) ==
  IF b = "json" THEN Persisted(file)
  ELSE IF b = "sqlite" THEN TableMap(db)
  ELSE mock

\* the records of the mapping m, each as its thread key and its place in the
\* thread's history
Places(m) ==
  {p \in (DOMAIN m) \X (1..(MAX_THREAD_HISTORY + MaxOver)) : p[2] <= Len(m[p[1]])}

\* the counters agree with the mapping m
Counts(s, m) ==
  /\ s.total_threads = Cardinality(DOMAIN m)
  /\ s.total_emails = Cardinality(Places(m))
  /\ s.threads_with_history = Cardinality({k \in DOMAIN m : Len(m[k]) > 1})
  /\ s.threads_at_limit =
       Cardinality({k \in DOMAIN m : Len(m[k]) >= MAX_THREAD_HISTORY})
  /\ s.bot_replies = Cardinality({p \in Places(m) : m[p[1]][p[2]].is_bot_reply})
  /\ s.user_emails = Cardinality({p \in Places(m) : ~m[p[1]][p[2]].is_bot_reply})
  /\ s.bot_replies + s.user_emails = s.total_emails

\* C16: in every state, on every provider, get_storage_stats (when nothing
\* fails in it) reports total_threads = the number of stored thread keys,
\* total_emails = the number of stored records, threads_with_history = the
\* number of threads with more than one record, threads_at_limit = the number
\* of threads with at least MAX_THREAD_HISTORY records, bot_replies = the
\* number of records with the reply flag and user_emails = the number without
\* it, so that bot_replies + user_emails = total_emails.
C16_StatsCorrect ==
  \A b \in active :
    /\ \A s \in StatsResults(b) : Counts(s, StoredMap(b))
    /\ (ret[b].op = "stats" /\ faulted = {}) => ret[b].stats \in StatsResults(b)

\* get_storage_stats of the SQLite provider reported a thread at the limit,
\* with a reply and a customer mail among the records
C16_Witness ==
  /\ active = {"sqlite"}
  /\ ret["sqlite"].op = "stats"
  /\ faulted = {}
  /\ ret["sqlite"].stats.threads_at_limit = 1
  /\ ret["sqlite"].stats.bot_replies >= 1
  /\ ret["sqlite"].stats.user_emails >= 1
  /\ ret["sqlite"].stats.total_emails = Len(db)

\* C17: the cap the thread store runs with is a positive integer: an unset
\* threading.max_history gives the default, and a value below 1 never becomes
\* MAX_THREAD_HISTORY.
C17_CapIsPositive ==
  /\ cap.set => cap.value >= 1
  /\ (cap.set /\ ~yaml.set) => cap.value = DefaultMaxHistory

\* C18: the timestamp the facade's add_email_to_thread gives its record is
\* strictly greater, as an ISO string, than the timestamp of every record that
\* an earlier add_email_to_thread call of the process stored.
C18_TimestampsIncrease ==
  [][\A k \in Keys, m \in Msgs :
       add_email_to_thread(k, m) =>
         \A b \in active :
           pure[b] =>
             \A t \in DOMAIN appended[b] :
               \A i \in 1..Len(appended[b][t]) :
                 StrLt(appended[b][t][i].timestamp,
                       EmailData(m, now).timestamp)]_vars

\* the places of the lines of one kind in a text, in their order
LinesOf(text, kind) == {j \in 1..Len(text) : text[j].kind = kind}

\* the place of the i-th line of a kind
NthOf(text, kind, i) ==
  CHOOSE j \in LinesOf(text, kind) :
    Cardinality({x \in LinesOf(text, kind) : x < j}) = i - 1

\* C19: format_thread_context returns the empty text for an empty history;
\* for a history of n >= 1 records the text has exactly n record blocks, in
\* the order of the history, the i-th labelled "Bot" when the i-th record has
\* the reply flag and with the record's sender otherwise and carrying the
\* record's subject and body, and exactly one instruction marker, which is
\* the last line.
C19_ContextFormat ==
  context.done =>
    LET h == context.history
        text == context.text
    IN /\ h = <<>> => text = <<>>
       /\ h # <<>> =>
            /\ Cardinality(LinesOf(text, "from")) = Len(h)
            /\ \A i \in 1..Len(h) :
                 LET j == NthOf(text, "from", i)
                 IN /\ text[j].text =
                         (IF h[i].is_bot_reply THEN "Bot" ELSE h[i].sender)
                    /\ j + 2 <= Len(text)
                    /\ text[j + 1] = Line("subject", h[i].subject)
                    /\ text[j + 2] = Line("message", h[i].body)
            /\ Cardinality(LinesOf(text, "subject")) = Len(h)
            /\ Cardinality(LinesOf(text, "message")) = Len(h)
            /\ LinesOf(text, "marker") = {Len(text)}

\* a history of a customer mail, the reply to it and a second customer mail
\* was formatted
C19_Witness ==
  /\ context.done
  /\ Len(context.history) = 3
  /\ ~context.history[1].is_bot_reply
  /\ context.history[2].is_bot_reply
  /\ ~context.history[3].is_bot_reply
  /\ Len(context.text) = 14

\* save_threads of the JSON provider is left through its except clause, at
\* the step it is at, with the outcome o ("fail": the temporary file could be
\* removed; "fail_keep": removing it raised too)
SaveFails(o) ==
  /\ pc \in {"open", "write", "replace", "stat"}
  /\ SaveStep(pc, [file |-> file, tmp |-> tmp], "idle", o)

C21_EvictionFIFO ==
  [][\A k \in Keys, m \in Msgs :
       (/\ add_email_to_thread(k, m)
        /\ "sqlite" \in active
        /\ ret'["sqlite"] = Returned("add", TRUE)) =>
         RowsInOrder(db', k) =
           SliceLast(Append(RowsInOrder(db, k), EmailData(m, now)),
                     MAX_THREAD_HISTORY)]_vars

\* C22: an append on the SQLite provider runs the insert and the eviction as
\* one atomic unit: when the count query, the trimming DELETE or the commit
\* fails after the INSERT was executed, add_email_to_thread returns False and
\* the table is the one before the call (the inserted row is not there); and
\* no append leaves its thread with more than MAX_THREAD_HISTORY rows, unless
\* the thread had as many before.
C22_AppendIsAtomic ==
  [][\A k \in Keys, m \in Msgs :
       (add_email_to_thread(k, m) /\ "sqlite" \in active) =>
         /\ faulted' \cap {"count", "delete", "commit"} # {} =>
              /\ ret'["sqlite"] = Returned("add", FALSE)
              /\ db' = db
         /\ \/ Cardinality(ThreadRows(db', k)) <= MAX_THREAD_HISTORY
            \/ Cardinality(ThreadRows(db', k)) <= Cardinality(ThreadRows(db, k))]_vars

\* the trimming DELETE of an append to a full thread failed: the append
\* returned False and the thread has the MAX_THREAD_HISTORY rows it had
C22_Witness ==
  /\ active = {"sqlite"}
  /\ faulted = {"delete"}
  /\ ret["sqlite"] = Returned("add", FALSE)
  /\ Cardinality(ThreadRows(db, "thread_123")) = MAX_THREAD_HISTORY

\* C23: cleanup_old_threads is all-or-nothing: when persisting its result
\* fails (save_threads fails on the JSON provider; the DELETE or the commit
\* fails on the SQLite provider), the call returns 0 and what is persisted is
\* exactly what was persisted before the call.
C23_CleanupAllOrNothing ==
  [][/\ \A d \in DaysChoices :
          (/\ cleanup_old_threads(d)
           /\ "sqlite" \in active
           /\ faulted' \cap {"delete", "commit"} # {}) =>
            /\ ret'["sqlite"] = Returned("cleanup", 0)
            /\ db' = db
     /\ (/\ cont.op = "cleanup"
         /\ \E o \in {"fail", "fail_keep"} : SaveFails(o)) =>
          /\ ret'["json"] = Returned("cleanup", 0)
          /\ file' = cont.base]_vars

\* C24: from the empty store, driven by facade calls only, every stored
\* thread key has at least one record, after every call; a key that was not
\* stored before a call and is stored after it was given to an
\* add_email_to_thread call that returned True; and after an
\* add_email_to_thread call that returned True its key is stored.
C24_ThreadLifecycle ==
  [][/\ \A b \in active : \A k \in StoredKeys(b)' : Stored(b, k)' # <<>>
     /\ \A k \in Keys, m \in Msgs :
          add_email_to_thread(k, m) =>
            \A b \in active \ {"json"} :
              /\ StoredKeys(b)' \ StoredKeys(b) # {} =>
                   /\ ret'[b] = Returned("add", TRUE)
                   /\ StoredKeys(b)' \ StoredKeys(b) = {k}
              /\ ret'[b] = Returned("add", TRUE) => k \in StoredKeys(b)'
     /\ \A b \in active \ {"json"} :
          StoredKeys(b)' \ StoredKeys(b) # {} =>
            \E k \in Keys, m \in Msgs : add_email_to_thread(k, m)
     /\ (pc # "idle" /\ pc' = "idle" /\ ret'["json"].op # "crashed") =>
          LET new == DOMAIN Persisted(file') \ DOMAIN Persisted(cont.base)
          IN /\ new # {} =>
                  /\ ret'["json"] = Returned("add", TRUE)
                  /\ new = {cont.key}
             /\ ret'["json"] = Returned("add", TRUE) =>
                  cont.key \in DOMAIN Persisted(file')]_vars

\* C25: in every reachable state, on every provider and for every thread key
\* t, what get_thread_history(t) returns is the sequence that what
\* load_threads() returns maps t to (the empty sequence for an absent key).
C25_HistoryIsSnapshot ==
  \A b \in active : \A threads \in LoadResults(b) :
    \A t \in Keys : \A history \in GetResults(b, t) :
      history = Get(threads, t)

\* a text with something in it besides white space
NonBlank(text) == text \notin {"", " "}

\* C29: send_replies_for_emails, given a non-empty email list and a non-empty
\* reply list, returns one (uid, success) entry per email, in the order of
\* the emails; an entry is True only if the replies hold a non-blank text for
\* its uid and the send for that email went out; an email whose uid has no
\* reply, or only blank ones, is not handed to send_reply and its entry is
\* False.
C29_OneResultPerEmail ==
  (sending.done /\ sending.emails # <<>> /\ sending.replies # <<>>) =>
    LET has(u) == \E j \in 1..Len(sending.replies) :
                    sending.replies[j].uid = u /\ NonBlank(sending.replies[j].reply)
    IN /\ Len(sending.results) = Len(sending.emails)
       /\ \A i \in 1..Len(sending.emails) :
            /\ sending.results[i].uid = sending.emails[i].uid
            /\ sending.results[i].success =>
                 /\ has(sending.emails[i].uid)
                 /\ i \in sending.attempted
                 /\ sending.sends[i] = "sent"
            /\ ~has(sending.emails[i].uid) =>
                 /\ i \notin sending.attempted
                 /\ ~sending.results[i].success

\* two emails were given, the first with a reply that went out and the
\* second with a reply of white space only
C29_Witness ==
  /\ sending.done
  /\ Len(sending.emails) = 2
  /\ sending.replies = << [uid |-> 1001, reply |-> "Thank you"],
                          [uid |-> 1002, reply |-> " "] >>
  /\ sending.emails[1].uid = 1001 /\ sending.emails[2].uid = 1002
  /\ sending.results = << [uid |-> 1001, success |-> TRUE],
                          [uid |-> 1002, success |-> FALSE] >>
  /\ sending.attempted = {1}

\* the uids of a list of emails
UidsOf(list) == {list[i].uid : i \in 1..Len(list)}

\* C30: on the mock mail provider no call takes a uid out of the processed
\* set; a fetch of either kind returns no email whose uid is in the
\* processed set; fetch_unseen_emails_and_mark_processed puts the uid of
\* every email it returns into the processed set, so that a second
\* fetch-and-mark right after it would return no email; and
\* fetch_unseen_emails leaves the processed set as it is.
C30_DeliveredAtMostOnce ==
  [][/\ processed_uids \subseteq processed_uids'
     /\ (MockMail_fetch_unseen_emails \/
         MockMail_fetch_unseen_emails_and_mark_processed) =>
          UidsOf(fetched') \cap processed_uids = {}
     /\ MockMail_fetch_unseen_emails_and_mark_processed =>
          /\ UidsOf(fetched') \subseteq processed_uids'
          /\ unseen_emails(processed_uids') = <<>>
     /\ MockMail_fetch_unseen_emails => processed_uids' = processed_uids]_vars

\* the five test emails are processed and the second fetch returned none
C30_Witness ==
  /\ call_count = 2
  /\ fetched = <<>>
  /\ processed_uids = UidsOf(test_emails)

\* C26: in a run of main, whenever a bot-reply record has been appended for
\* an email of the batch, it is the second record appended for that email,
\* the first being the email's inbound record, appended to the same thread
\* by a call that returned True; the reply kept for the email is not blank;
\* and the send results hold success for its uid.  (So no reply record is
\* appended for an email whose inbound append failed.)
C26_ReplyStoredOnlyIfSent ==
  \A i \in 1..Len(stored) : \A j \in 1..Len(stored[i]) :
    stored[i][j].record.is_bot_reply =>
      /\ j = 2
      /\ ~stored[i][1].record.is_bot_reply
      /\ stored[i][1].record.uid = emails[i].uid
      /\ stored[i][1].saved
      /\ stored[i][1].thread_id = stored[i][2].thread_id
      /\ NonBlank(enhanced_results[i].reply)
      /\ \E l \in 1..Len(results) :
           results[l].uid = emails[i].uid /\ results[l].success

\* a run ended in which the first email got its inbound record and its
\* reply stored, and the second, whose reply was generated but not sent,
\* its inbound record only
C26_Witness ==
  /\ step = "done"
  /\ Len(emails) = 2
  /\ Len(stored[1]) = 2 /\ stored[1][2].record.is_bot_reply
  /\ Len(stored[2]) = 1 /\ stored[2][1].saved
  /\ enhanced_results[2].reply = "Thank you"
  /\ ~results[2].success

\* C27: in a run of main, a step that reads a thread history for a reply
\* is taken while no record of the batch has been appended to the store,
\* and it appends none; so once a record of the batch is in the store, the
\* histories for all emails of the batch have been read.
C27_ReadsBeforeAppends ==
  [][contexts' # contexts =>
       /\ \A i \in 1..Len(stored) : stored[i] = <<>>
       /\ stored' = stored
       /\ mock' = mock]_vars

\* a run ended for two emails of the same thread, both stored with their
\* replies; the history read for the second is the one record the store
\* held before the run
C27_Witness ==
  /\ step = "done"
  /\ Len(emails) = 2
  /\ emails[1].thread_id = "thread_123" /\ emails[2].thread_id = "thread_123"
  /\ Len(stored[1]) = 2 /\ Len(stored[2]) = 2
  /\ Len(contexts[2]) = 1 /\ contexts[2][1].uid = 7

\* C28: during step 5 of main, storage_successes + storage_failures is the
\* number of emails the loop is through with (each email adds one to one of
\* the two counters), and when the step is finished the sum is the number of
\* fetched emails.
C28_StorageAccounting ==
  /\ step \in {"store_inbound", "store_reply"} =>
       storage_successes + storage_failures = idx - 1
  /\ (step = "done" /\ emails # <<>>) =>
       storage_successes + storage_failures = Len(emails)

\* a run ended with one email counted as stored and one, whose append
\* raised, counted as failed
C28_Witness ==
  /\ step = "done"
  /\ Len(emails) = 2
  /\ storage_successes = 1
  /\ storage_failures = 1
  /\ stored[2] = <<>>

====
